---- MODULE Spec2Model ----
(***************************************************************************)
(* Model of src/main.py: the Dedupe store (Redis or seen_jobs.txt), the    *)
(* three site scrapers, urgency_label and run_all.                         *)
(*                                                                         *)
(* Text is a sequence of atoms: an atom stands for one character ("u",     *)
(* " ", "\n") or for a fixed literal of the source ("indeed::", "job:",    *)
(* "None", "https://www.indeed.com").  Python's None is the one-atom       *)
(* sequence None, whose atom occurs in no text.                            *)
(***************************************************************************)
EXTENDS Integers, Sequences, FiniteSets, TLC

\* ---------------------------------------------------------------- bounds
MaxCards == 2         \* job cards the scrapers take from all pages of all runs
MaxRuns == 2          \* runs of the script (process lifetimes)
MaxTicks == 1         \* steps of the wall clock, each of TickLen seconds
MaxCalls == 3         \* seen_before calls of the concurrent callers
MaxRatingTenths == 50 \* ratings 0.0 .. 5.0 in the urgency_label inputs

\* ------------------------------------------------------- program constants
RatingScale == 100000                 \* a rating r is held as r * 10^5
MIN_RATING == 3 * RatingScale         \* float(os.getenv("MIN_RATING", "3"))
ApplyNowMin == (46 * RatingScale) \div 10   \* 4.6
GoodFitMin == (42 * RatingScale) \div 10    \* 4.2
ConsiderMin == (38 * RatingScale) \div 10   \* 3.8
TTL == 10 * 24 * 3600                 \* expire(..., 10 * 24 * 3600)
TickLen == TTL
NoExpiry == 0 - 1                     \* Redis' TTL of a key without expiry

None == <<"%None%">>
NL == "\n"
SP == " "

\* ------------------------------------------------------------- text helpers
RECURSIVE LStrip(_)
LStrip(s) == IF s # <<>> /\ Head(s) \in {SP, NL} THEN LStrip(Tail(s)) ELSE s

RECURSIVE RStrip(_)
RStrip(s) ==
    IF s # <<>> /\ s[Len(s)] \in {SP, NL} THEN RStrip(SubSeq(s, 1, Len(s) - 1)) ELSE s

\* str.strip()
Strip(s) == RStrip(LStrip(s))

\* the lines a text file yields when iterated, each with its terminator
RECURSIVE FileLines(_, _)
FileLines(s, cur) ==
    IF s = <<>> THEN (IF cur = <<>> THEN {} ELSE {cur})
    ELSE IF Head(s) = NL THEN {Append(cur, NL)} \cup FileLines(Tail(s), <<>>)
    ELSE FileLines(Tail(s), Append(cur, Head(s)))

\* set([line.strip() for line in f if line.strip()])
LoadFile(f) == {Strip(l) : l \in {x \in FileLines(f, <<>>) : Strip(x) # <<>>}}

\* f.write(key + "\n")
AppendLine(f, key) == f \o key \o <<NL>>

\* f"{x}"
Format(x) == IF x = None THEN <<"None">> ELSE x

\* Python truthiness of an optional string
Truthy(x) == x # None /\ x # <<>>

\* f"indeed::{link}", f"naukri::{link}", f"linkedin::{link}"
Key(site, link) == <<site, "::">> \o Format(link)


\* ------------------------------------------------------------------ ratings
\* A rating is None or the text of the ratingNumber tag: <<"num", v>> is a
\* decimal numeral of value v / RatingScale, <<"nan">> the text "nan",
\* <<"bad">> a text float() rejects, <<>> the empty text.
IsNum(r) == Len(r) = 2 /\ r[1] = "num"
IsNaN(r) == r = <<"nan">>

\* float(rating) returns (a number or NaN) instead of raising ValueError
Parses(r) == IsNum(r) \/ IsNaN(r)

\* r >= bound, for r = float(rating); every comparison with NaN is False
FloatGE(r, bound) == IsNum(r) /\ r[2] >= bound

\* r < bound
FloatLT(r, bound) == IsNum(r) /\ r[2] < bound

\* the first threshold compared with > instead of >=
urgency_label_gt(rating) ==
    IF rating = None THEN "No rating"
    ELSE IF ~Parses(rating) THEN "No rating"
    ELSE IF IsNum(rating) /\ rating[2] > ApplyNowMin THEN "APPLY NOW"
    ELSE IF FloatGE(rating, GoodFitMin) THEN "Good Fit"
    ELSE IF FloatGE(rating, ConsiderMin) THEN "Consider"
    ELSE "Low"

urgency_label(rating) ==
    IF rating = None THEN "No rating"
    ELSE IF ~Parses(rating) THEN "No rating"
    ELSE IF FloatGE(rating, ApplyNowMin) THEN "APPLY NOW"
    ELSE IF FloatGE(rating, GoodFitMin) THEN "Good Fit"
    ELSE IF FloatGE(rating, ConsiderMin) THEN "Consider"
    ELSE "Low"

\* the rating filter of parse_indeed: TRUE when the card is skipped
RatingFiltered(rating) ==
    Truthy(rating) /\ Parses(rating) /\ FloatLT(rating, MIN_RATING)

\* the link rewriting of parse_indeed
IndeedLink(link) ==
    IF Truthy(link) /\ Head(link) = "/" THEN <<"https://www.indeed.com">> \o link
    ELSE link

\* one block of the digest per item, the items in the order of results
BuildDigest(res) ==
    [i \in 1..Len(res) |-> [label |-> urgency_label(res[i].rating), item |-> res[i]]]

\* -------------------------------------------------------------------- Redis
\* The store is a function from the existing keys to their expiry time
\* (NoExpiry when none is set).  Expired keys are removed by the clock.
JobKey(key) == <<"job:">> \o key

\* SETNX as a plain SET: the reply says "added" whatever the store holds
SetnxAddedAlways(store, key) == TRUE

\* the reply of SETNX key 1
SetnxAdded(store, key) == JobKey(key) \notin DOMAIN store

\* the store after SETNX key 1
SetnxStore(store, key) ==
    IF SetnxAdded(store, key) THEN (JobKey(key) :> NoExpiry) @@ store ELSE store

\* the store after EXPIRE key TTL at time now
ExpireStore(store, key, now) ==
    IF JobKey(key) \in DOMAIN store
    THEN [store EXCEPT ![JobKey(key)] = now + TTL]
    ELSE store

\* the store once the clock reads now
Unexpired(store, now) ==
    LET live == {k \in DOMAIN store : store[k] = NoExpiry \/ store[k] > now}
    IN  [k \in live |-> store[k]]


\* -------------------------------------------------------------------- state
VARIABLES
    redisUrl,       \* REDIS_URL is set
    file,           \* the text of seen_jobs.txt
    rstore,         \* the Redis server's keys
    clock,          \* wall clock, in seconds
    pc,             \* where the script is: boot, a scraper, digest, done, crash
    phase,          \* inside a scraper: fetch, loop, except
    use_redis,      \* Dedupe.use_redis
    connectFailed,  \* Dedupe.__init__ took its except branch
    seen,           \* Dedupe.seen
    loaded,         \* Dedupe.seen as loaded by __init__
    cards,          \* job cards the scrapers have taken from their pages so far
    href,           \* the href of the card of the last iteration
    ret,            \* what seen_before did in the last iteration
    exc,            \* the exception being handled
    found,          \* the running scraper's found
    results,        \* run_all's results
    digest,         \* the blocks of the email body
    mail,           \* what send_email did
    runs,           \* runs of the script so far
    accepted,       \* per backend: keys seen_before returned False for, still stored
    marked,         \* keys this run added to the store it uses
    cpc,            \* concurrent callers: idle, or between SETNX and EXPIRE
    ckey,           \* concurrent callers: the key of the call
    cret,           \* concurrent callers: the result of the last call
    wins,           \* per key: calls that returned False since the entry exists
    ncalls,         \* calls the concurrent callers have started
    cwho,           \* the concurrent caller that took the last step
    lrating,        \* the rating of the item handed to the digest builder
    ldigest         \* the digest built for it

envVars == <<file, rstore, clock>>
procVars == <<pc, phase, use_redis, connectFailed, seen, loaded, cards, href, ret, exc,
              found, results, digest, mail, runs, accepted, marked>>
concVars == <<cpc, ckey, cret, wins, ncalls, cwho>>
labelVars == <<lrating, ldigest>>
vars == <<redisUrl, envVars, procVars, concVars, labelVars>>

Callers == {"c1", "c2"}

\* the keys the concurrent callers ask about
ConcKeys == {Key("indeed", <<"u">>), Key("naukri", <<"u">>)}
Scrapers == {"indeed", "naukri", "linkedin"}

\* what an href attribute can hold: nothing, "u", "u " (trailing blank)
Links == {None, <<"u">>, <<"u", SP>>}

\* Indeed's hrefs are site-relative: nothing, "/u", "/u " (trailing blank)
IndeedLinks == {None, <<"/", "u">>, <<"/", "u", SP>>}

\* what the ratingNumber tag can hold: nothing, "2.9", "4.7", a non-number
PageRatings == {None, <<"num", 29 * (RatingScale \div 10)>>,
                <<"num", 47 * (RatingScale \div 10)>>, <<"bad">>}

EnvInit == file = <<>> /\ rstore = <<>> /\ clock = 0

ProcInit ==
    /\ pc = "boot" /\ phase = "-"
    /\ use_redis = FALSE /\ connectFailed = FALSE
    /\ seen = {} /\ loaded = {}
    /\ cards = 0 /\ href = None /\ ret = "none" /\ exc = "none"
    /\ found = <<>> /\ results = <<>> /\ digest = <<>> /\ mail = "none"
    /\ runs = 1
    /\ accepted = [b \in {"file", "redis"} |-> {}]
    /\ marked = {}

ConcInit ==
    /\ cpc = [c \in Callers |-> "idle"]
    /\ ckey = [c \in Callers |-> <<>>]
    /\ cret = [c \in Callers |-> "none"]
    /\ wins = [k \in ConcKeys |-> 0]
    /\ ncalls = 0
    /\ cwho = "none"

LabelInit == lrating = None /\ ldigest = <<>>

Init == redisUrl \in BOOLEAN /\ EnvInit /\ ProcInit /\ ConcInit /\ LabelInit

\* ------------------------------------------------------------------- Dedupe
\* use_redis set before the ping: a failed ping leaves it True
DedupeInitFlagFirst(url, ok, f) ==
    IF url
    THEN [use_redis |-> TRUE, connectFailed |-> ~ok, seen |-> {}]
    ELSE [use_redis |-> FALSE, connectFailed |-> FALSE, seen |-> LoadFile(f)]

\* Dedupe.__init__; ok: from_url and ping raised nothing
DedupeInit(url, ok, f) ==
    IF url /\ ok
    THEN [use_redis |-> TRUE, connectFailed |-> FALSE, seen |-> {}]
    ELSE [use_redis |-> FALSE, connectFailed |-> url, seen |-> LoadFile(f)]

\* the round trips and the file append seen_before can fail at
Failures == IF use_redis THEN {"none", "setnx", "expire"} ELSE {"none", "append"}

\* Dedupe.seen_before(key); fail names the call that raises, if any
seen_before(key, fail) ==
    IF use_redis
    THEN IF fail = "setnx"
         THEN [ret |-> "raise", seen |-> seen, file |-> file, rstore |-> rstore]
         ELSE IF SetnxAdded(rstore, key)
         THEN IF fail = "expire"
              THEN [ret |-> "raise", seen |-> seen, file |-> file,
                    rstore |-> SetnxStore(rstore, key)]
              ELSE [ret |-> "False", seen |-> seen, file |-> file,
                    rstore |-> ExpireStore(SetnxStore(rstore, key), key, clock)]
         ELSE [ret |-> "True", seen |-> seen, file |-> file,
               rstore |-> SetnxStore(rstore, key)]
    ELSE IF key \in seen
         THEN [ret |-> "True", seen |-> seen, file |-> file, rstore |-> rstore]
         ELSE IF fail = "append"
         THEN [ret |-> "raise", seen |-> seen \cup {key}, file |-> file,
               rstore |-> rstore]
         ELSE [ret |-> "False", seen |-> seen \cup {key},
               file |-> AppendLine(file, key), rstore |-> rstore]

Backend == IF use_redis THEN "redis" ELSE "file"


\* ------------------------------------------------------------ the scrapers
SiteName(site) ==
    IF site = "indeed" THEN "Indeed" ELSE IF site = "naukri" THEN "Naukri" ELSE "LinkedIn"

\* run_all calls parse_indeed, parse_naukri, parse_linkedin in this order
NextPc(site) ==
    IF site = "indeed" THEN "naukri" ELSE IF site = "naukri" THEN "linkedin" ELSE "digest"

\* a scraper that consults the store for a card without a link too
LinkGuardNone(link) == TRUE

\* the "link and" of parse_naukri and parse_linkedin
LinkGuard(link) == Truthy(link)

\* "except Exception" of a scraper
Catches(e) == TRUE

\* a handler that gives up what the scraper had found
ExceptReturnEmpty(f) == <<>>

\* what a scraper returns once its handler has run: "return found"
ExceptReturn(f) == f

\* the iteration goes on to the next card without consulting the store
Skip ==
    /\ ret' = "none"
    /\ UNCHANGED <<envVars, seen, phase, exc, found, accepted, marked>>

\* "if not deduper.seen_before(key): found.append(item)"
Consult(key, item, fail) ==
    LET r == seen_before(key, fail)
        added == r.file # file \/ JobKey(key) \in (DOMAIN r.rstore) \ (DOMAIN rstore)
    IN  /\ seen' = r.seen
        /\ file' = r.file
        /\ rstore' = r.rstore
        /\ ret' = r.ret
        /\ marked' = IF added THEN marked \cup {key} ELSE marked
        /\ accepted' = IF r.ret = "False"
                         THEN [accepted EXCEPT ![Backend] = @ \cup {key}]
                         ELSE accepted
        /\ found' = IF r.ret = "False" THEN Append(found, item) ELSE found
        /\ phase' = IF r.ret = "raise" THEN "except" ELSE phase
        /\ exc' = IF r.ret = "raise" THEN "store" ELSE exc
        /\ UNCHANGED clock

\* Dedupe() at import; ok: the connection and the ping succeeded
Construct ==
    /\ pc = "boot"
    /\ \E ok \in BOOLEAN :
         LET d == DedupeInit(redisUrl, ok, file)
         IN  /\ use_redis' = d.use_redis
             /\ connectFailed' = d.connectFailed
             /\ seen' = d.seen
             /\ loaded' = d.seen
    /\ pc' = "indeed"
    /\ phase' = "fetch"
    /\ UNCHANGED <<redisUrl, envVars, cards, href, ret, exc, found, results, digest, mail,
                   runs, accepted, marked, concVars, labelVars>>

\* found = []; requests.get and BeautifulSoup, which may raise
Fetch ==
    /\ pc \in Scrapers
    /\ phase = "fetch"
    /\ found' = <<>>
    /\ href' = None
    /\ ret' = "none"
    /\ \E ok \in BOOLEAN :
         /\ phase' = IF ok THEN "loop" ELSE "except"
         /\ exc' = IF ok THEN "none" ELSE "fetch"
    /\ UNCHANGED <<redisUrl, envVars, pc, use_redis, connectFailed, seen, loaded,
                   cards, results, digest, mail, runs, accepted, marked, concVars, labelVars>>

\* one iteration of parse_indeed's loop over the tapItem cards
StepIndeed ==
    /\ pc = "indeed"
    /\ phase = "loop"
    /\ cards < MaxCards
    /\ \E rating \in PageRatings, h \in IndeedLinks, fail \in Failures :
         LET link == IndeedLink(h)
         IN  /\ href' = h
             /\ IF RatingFiltered(rating)
                THEN Skip
                ELSE Consult(Key("indeed", link),
                             [site |-> "Indeed", rating |-> rating, link |-> link], fail)
    /\ cards' = cards + 1
    /\ UNCHANGED <<redisUrl, pc, use_redis, connectFailed, loaded, results, digest,
                   mail, runs, concVars, labelVars>>

\* one iteration of parse_naukri's loop over the jobTuple articles
StepNaukri ==
    /\ pc = "naukri"
    /\ phase = "loop"
    /\ cards < MaxCards
    /\ \E h \in Links, fail \in Failures :
         /\ href' = h
         /\ IF LinkGuard(h)
            THEN Consult(Key("naukri", h),
                         [site |-> "Naukri", rating |-> None, link |-> h], fail)
            ELSE Skip
    /\ cards' = cards + 1
    /\ UNCHANGED <<redisUrl, pc, use_redis, connectFailed, loaded, results, digest,
                   mail, runs, concVars, labelVars>>

\* one iteration of parse_linkedin's loop over the job cards
StepLinkedin ==
    /\ pc = "linkedin"
    /\ phase = "loop"
    /\ cards < MaxCards
    /\ \E h \in Links, fail \in Failures :
         /\ href' = h
         /\ IF LinkGuard(h)
            THEN Consult(Key("linkedin", h),
                         [site |-> "LinkedIn", rating |-> None, link |-> h], fail)
            ELSE Skip
    /\ cards' = cards + 1
    /\ UNCHANGED <<redisUrl, pc, use_redis, connectFailed, loaded, results, digest,
                   mail, runs, concVars, labelVars>>

\* the page has no more cards: "return found", and run_all's "results +=";
\* the scraper's locals are gone
EndPage ==
    /\ pc \in Scrapers
    /\ phase = "loop"
    /\ results' = results \o found
    /\ pc' = NextPc(pc)
    /\ phase' = IF NextPc(pc) \in Scrapers THEN "fetch" ELSE "-"
    /\ href' = None /\ ret' = "none" /\ exc' = "none" /\ found' = <<>>
    /\ UNCHANGED <<redisUrl, envVars, use_redis, connectFailed, seen, loaded, cards,
                   digest, mail, runs, accepted, marked, concVars, labelVars>>

\* the scraper's handler: print, then "return found" and "results +="
Except ==
    /\ pc \in Scrapers
    /\ phase = "except"
    /\ IF Catches(exc)
       THEN /\ results' = results \o ExceptReturn(found)
            /\ pc' = NextPc(pc)
            /\ phase' = IF NextPc(pc) \in Scrapers THEN "fetch" ELSE "-"
       ELSE /\ results' = results
            /\ pc' = "crash"
            /\ phase' = "-"
    /\ href' = None /\ ret' = "none" /\ exc' = "none" /\ found' = <<>>
    /\ UNCHANGED <<redisUrl, envVars, use_redis, connectFailed, seen, loaded, cards,
                   digest, mail, runs, accepted, marked, concVars, labelVars>>

\* the rest of run_all: nothing when results is empty, else the body and
\* send_email (sent, failed, or suppressed for want of credentials)
Finish ==
    /\ pc = "digest"
    /\ IF results = <<>>
       THEN digest' = <<>> /\ mail' = "none"
       ELSE digest' = BuildDigest(results) /\ mail' \in {"sent", "failed", "suppressed"}
    /\ pc' = "done"
    /\ UNCHANGED <<redisUrl, envVars, phase, use_redis, connectFailed, seen, loaded, cards,
                   href, ret, exc, found, results, runs, accepted, marked, concVars,
                   labelVars>>

\* the process ends and the scheduler starts the script again
Restart ==
    /\ pc = "done"
    /\ runs < MaxRuns
    /\ runs' = runs + 1
    /\ pc' = "boot" /\ phase' = "-"
    /\ use_redis' = FALSE /\ connectFailed' = FALSE
    /\ seen' = {} /\ loaded' = {}
    /\ href' = None /\ ret' = "none" /\ exc' = "none"
    /\ found' = <<>> /\ results' = <<>> /\ digest' = <<>> /\ mail' = "none"
    /\ marked' = {}
    /\ UNCHANGED <<redisUrl, envVars, cards, accepted, concVars, labelVars>>

\* time passes; Redis drops the keys whose expiry is reached
Tick ==
    /\ clock < MaxTicks * TickLen
    /\ clock' = clock + TickLen
    /\ rstore' = Unexpired(rstore, clock + TickLen)
    /\ accepted' = [accepted EXCEPT
                       !["redis"] = {k \in @ : JobKey(k) \in DOMAIN Unexpired(rstore, clock + TickLen)}]
    /\ wins' = [k \in ConcKeys |->
                  IF JobKey(k) \in DOMAIN Unexpired(rstore, clock + TickLen) THEN wins[k] ELSE 0]
    /\ UNCHANGED <<redisUrl, file, pc, phase, use_redis, connectFailed, seen, loaded,
                   cards, href, ret, exc, found, results, digest, mail, runs, marked,
                   cpc, ckey, cret, ncalls, cwho, labelVars>>

Next ==
    \/ Construct
    \/ Fetch
    \/ StepIndeed
    \/ StepNaukri
    \/ StepLinkedin
    \/ EndPage
    \/ Except
    \/ Finish
    \/ Restart
    \/ Tick

Spec == Init /\ [][Next]_vars


\* ------------------------------------------- seen_before, called concurrently
\* Several callers share the Redis server; each runs the Redis branch of
\* seen_before, one round trip per step.

\* self.redis_client.setnx(f"job:{key}", 1), and "return True" when not added
CSetnx(c) ==
    /\ cpc[c] = "idle"
    /\ ncalls < MaxCalls
    /\ ncalls' = ncalls + 1
    /\ cwho' = c
    /\ \E k \in ConcKeys, ok \in BOOLEAN :
         /\ ckey' = [ckey EXCEPT ![c] = k]
         /\ IF ~ok
            THEN /\ cret' = [cret EXCEPT ![c] = "raise"]
                 /\ UNCHANGED <<rstore, cpc>>
            ELSE /\ rstore' = SetnxStore(rstore, k)
                 /\ IF SetnxAdded(rstore, k)
                    THEN /\ cpc' = [cpc EXCEPT ![c] = "expire"]
                         /\ cret' = [cret EXCEPT ![c] = "none"]
                    ELSE /\ cret' = [cret EXCEPT ![c] = "True"]
                         /\ UNCHANGED cpc
    /\ UNCHANGED <<redisUrl, file, clock, procVars, wins, labelVars>>

\* self.redis_client.expire(f"job:{key}", 10 * 24 * 3600), and "return False"
CExpire(c) ==
    /\ cpc[c] = "expire"
    /\ cwho' = c
    /\ cpc' = [cpc EXCEPT ![c] = "idle"]
    /\ \E ok \in BOOLEAN :
         IF ok
         THEN /\ rstore' = ExpireStore(rstore, ckey[c], clock)
              /\ cret' = [cret EXCEPT ![c] = "False"]
              /\ wins' = [wins EXCEPT ![ckey[c]] = @ + 1]
         ELSE /\ cret' = [cret EXCEPT ![c] = "raise"]
              /\ UNCHANGED <<rstore, wins>>
    /\ UNCHANGED <<redisUrl, file, clock, procVars, ckey, ncalls, labelVars>>

NextConc ==
    \/ \E c \in Callers : CSetnx(c)
    \/ \E c \in Callers : CExpire(c)
    \/ Tick

\* the callers exist only where REDIS_URL is set
InitConc == redisUrl = TRUE /\ EnvInit /\ ProcInit /\ ConcInit /\ LabelInit

SpecConc == InitConc /\ [][NextConc]_vars

\* ------------------------------------------------ urgency_label in the digest
\* the ratings at, just below and just above the thresholds, the tenths up to
\* MaxRatingTenths / 10, and the texts that are no decimal numeral
RatingInputs ==
    {None, <<>>, <<"bad">>, <<"nan">>}
    \cup {<<"num", t * (RatingScale \div 10)>> : t \in 0..MaxRatingTenths}
    \cup {<<"num", b + d>> : b \in {ApplyNowMin, GoodFitMin, ConsiderMin}, d \in {0 - 1, 1}}

\* run_all is handed one item with some rating
LabelPick ==
    /\ \E r \in RatingInputs : lrating' = r
    /\ ldigest' = <<>>
    /\ UNCHANGED <<redisUrl, envVars, procVars, concVars>>

\* run_all's loop over results, for that item
LabelBuild ==
    /\ ldigest = <<>>
    /\ ldigest' = BuildDigest(<<[site |-> "Indeed", rating |-> lrating, link |-> <<"u">>]>>)
    /\ UNCHANGED <<redisUrl, envVars, procVars, concVars, lrating>>

NextLabel ==
    \/ LabelPick
    \/ LabelBuild

InitLabel == redisUrl = FALSE /\ EnvInit /\ ProcInit /\ ConcInit /\ LabelInit

SpecLabel == InitLabel /\ [][NextLabel]_vars


\* =================================================================== claims
\* the key prefix of an item's site name
SiteId(name) ==
    IF name = "Indeed" THEN "indeed" ELSE IF name = "Naukri" THEN "naukri" ELSE "linkedin"

\* the dedupe key of an item of found, results or the digest
ItemKey(item) == Key(SiteId(item.site), item.link)

KeysOf(items) == {ItemKey(items[i]) : i \in 1..Len(items)}

\* the key the running scraper forms for a card with this href
CardKey(h) == Key(pc, IF pc = "indeed" THEN IndeedLink(h) ELSE h)

\* the store the Dedupe instance uses holds the key
InStore(k) == IF use_redis THEN JobKey(k) \in DOMAIN rstore ELSE k \in seen

\* this step is one iteration of a scraper's loop
CardStep == cards' = cards + 1

\* C1: across runs that share one store (and within a run) no two records
\* with the same dedupe key are both accepted into a digest: a scraper accepts
\* a card only if no card with its key was accepted before on the backend in
\* use (on Redis: since the entry last expired).
C1_NoDuplicateInDigest ==
    [][(CardStep /\ ret' = "False") => CardKey(href') \notin accepted[Backend]]_vars

\* C2: seen_before is a check-and-set: a call answers True only for a key
\* that an earlier call answered False for (on the file backend: in this
\* process, or that was loaded at startup; on Redis: since the entry last
\* expired), and answers False only for a key no earlier call answered False
\* for.
C2_CheckAndSet ==
    [][CardStep =>
        LET k == CardKey(href')
            known == IF use_redis THEN accepted["redis"]
                     ELSE loaded \cup KeysOf(results \o found)
        IN  /\ ret' = "True" => k \in known
            /\ ret' = "False" => k \notin known]_vars

\* C3: on Redis no job:<key> entry exists without an expiry, and every
\* expiry lies at most 10 days ahead (so a call made 10 days later finds no
\* entry and reports not seen).
C3_EveryEntryExpires ==
    \A k \in DOMAIN rstore : rstore[k] # NoExpiry /\ rstore[k] <= clock + TTL

\* C4: every key for which seen_before returned False on the file backend,
\* in this or an earlier process, is in the set of a Dedupe instance that has
\* loaded seen_jobs.txt, so its first call for that key returns True.
C4_PersistenceRoundTrip ==
    (pc \notin {"boot", "crash"} /\ ~use_redis) => accepted["file"] \subseteq seen

\* C10: when a run ends, every key the run added to the store belongs to a
\* record of the digest run_all built in that run.
C10_NoLostNotification ==
    pc = "done" => marked \subseteq {ItemKey(digest[i].item) : i \in 1..Len(digest)}


\* this step is a scraper's handler returning to run_all
HandlerStep == pc \in Scrapers /\ phase = "except" /\ pc' # pc

\* C5 as stated: no exception of a scraper reaches run_all, and a scraper in
\* which anything failed returns an empty sequence: run_all's results are
\* what they were before the scraper's handler ran.
C5_FailureReturnsEmpty ==
    [](pc # "crash") /\ [][HandlerStep => (pc' = NextPc(pc) /\ results' = results)]_vars

\* C5 amended: no exception of a scraper reaches run_all; a scraper whose
\* fetch or parse failed returns an empty sequence, and a scraper in which
\* the dedupe store failed returns the records it had accepted before.
C5_FailureReturnsFound ==
    /\ [](pc # "crash")
    /\ [][HandlerStep => /\ pc' = NextPc(pc)
                         /\ results' = results \o found
                         /\ exc = "fetch" => found = <<>>]_vars

\* a store failure after the scraper has accepted a record
C5_Witness == pc \in Scrapers /\ phase = "except" /\ exc = "store" /\ found # <<>>

LinklessStep == CardStep /\ href' = None /\ (pc = "indeed" => ret' # "none")

\* C7 as stated: in every scraper, a card without a link leaves the store
\* unchanged and is included.
C7_LinklessNeverDeduped ==
    [][LinklessStep => /\ file' = file /\ rstore' = rstore /\ seen' = seen
                       /\ Len(found') = Len(found) + 1]_vars

\* C7 amended: parse_naukri and parse_linkedin never include a card without a
\* link and leave the store unchanged for it; parse_indeed looks such a card
\* up under the key indeed::None like any other card: it is included exactly
\* when seen_before returns False, which happens only if that key was not in
\* the store, and the key is in the store afterwards, so that later cards
\* without a link are suppressed.
C7_LinklessByScraper ==
    [][LinklessStep =>
        IF pc = "indeed"
        THEN LET k == Key("indeed", None)
             IN  /\ Len(found') = Len(found) + 1 <=> ret' = "False"
                 /\ ret' = "False" => (~InStore(k) /\ InStore(k)')
                 /\ ret' = "True" => (InStore(k) /\ InStore(k)')
                 /\ ret' # "False" => found' = found
        ELSE /\ found' = found /\ ret' = "none"
             /\ file' = file /\ rstore' = rstore /\ seen' = seen]_vars

\* parse_indeed has accepted one card without a link and suppressed the next
C7_Witness ==
    /\ pc = "indeed" /\ href = None /\ ret = "True"
    /\ \E i \in 1..Len(found) : found[i].link = None

\* C8: with concurrent callers on one Redis, at most one call per key returns
\* False while the key's entry exists, under every interleaving of the
\* callers' SETNX and EXPIRE; and a call that returns True changes nothing in
\* the store.
C8_AtMostOneNotSeen ==
    /\ [](\A k \in ConcKeys : wins[k] <= 1)
    /\ [][(ncalls' = ncalls + 1 /\ cret'[cwho'] = "True") => rstore' = rstore]_vars

\* one caller is between its SETNX and its EXPIRE while another has been told
\* "seen" for the same key
C8_Witness ==
    \E c, d \in Callers :
        c # d /\ cpc[c] = "expire" /\ cpc[d] = "idle" /\ cret[d] = "True" /\ ckey[d] = ckey[c]

\* the label of the digest's one block
TheLabel == ldigest[1].label

\* the thresholds of C9 for the ratings that are numbers, and "no rating" for
\* an absent one
LabelByThreshold ==
    /\ Len(ldigest) = 1
    /\ ldigest[1].item.rating = lrating
    /\ lrating = None => TheLabel = "No rating"
    /\ (IsNum(lrating) /\ lrating[2] >= ApplyNowMin) => TheLabel = "APPLY NOW"
    /\ (IsNum(lrating) /\ lrating[2] >= GoodFitMin /\ lrating[2] < ApplyNowMin)
          => TheLabel = "Good Fit"
    /\ (IsNum(lrating) /\ lrating[2] >= ConsiderMin /\ lrating[2] < GoodFitMin)
          => TheLabel = "Consider"
    /\ (IsNum(lrating) /\ lrating[2] < ConsiderMin) => TheLabel = "Low"

\* C9 as stated: the thresholds, with a rating that is present but no number
\* labelled "low"; the item is in the digest whatever its label.
C9_UnparsableIsLow ==
    ldigest # <<>> =>
        /\ LabelByThreshold
        /\ (lrating # None /\ ~IsNum(lrating)) => TheLabel = "Low"

\* C9 amended: the thresholds; a rating text float() rejects is labelled
\* "no rating", like an absent rating, and the text "nan", which float()
\* accepts, "low"; the item is in the digest whatever its label.
C9_UnparsableIsNoRating ==
    ldigest # <<>> =>
        /\ LabelByThreshold
        /\ (lrating # None /\ ~Parses(lrating)) => TheLabel = "No rating"
        /\ IsNaN(lrating) => TheLabel = "Low"

\* the digest of an item whose rating is at the first threshold
C9_Witness == ldigest # <<>> /\ lrating = <<"num", ApplyNowMin>>

====
